---- MODULE Spec2Model ----
(***************************************************************************)
(* Model of Rugged::RemoteCollection                                       *)
(* (ext/rugged/rugged_remote_collection.c): create, create_anonymous, [],  *)
(* each, each_name and delete over the repository's configured remotes.    *)
(*                                                                         *)
(* The configuration store (libgit2's git_remote_* calls), the repository  *)
(* check, URL validation and the exception mapping live outside this file; *)
(* they are modelled from their documented interface.                      *)
(***************************************************************************)
EXTENDS Integers, Sequences, FiniteSets, TLC

\* ---------------------------------------------------------------- bounds
\* Largest number of persisted remotes the model lets the store hold.
MaxRemotes == 2

\* ------------------------------------------------------------ value space
\* Ruby values that reach the collection's methods.
Str(s) == [t |-> "str", v |-> s]
Qnil == [t |-> "nil", v |-> ""]
Fixnum == [t |-> "int", v |-> "42"]

\* Remote names offered by callers; "" is a name the store rejects.
NameStrings == {"a", "b", "c", ""}
\* URLs offered by callers; "" is rejected by URL validation.
UrlStrings == {"u1", "u2", ""}

\* libgit2 error codes and Ruby exception classes, by name.
GIT_OK == "GIT_OK"
GIT_ERROR == "GIT_ERROR"
GIT_ENOTFOUND == "GIT_ENOTFOUND"
GIT_EEXISTS == "GIT_EEXISTS"
GIT_EINVALIDSPEC == "GIT_EINVALIDSPEC"

\* rb_protect's state: 0 when the block returned, a tag when it raised or
\* broke out.
TAG_NONE == "TAG_NONE"
TAG_RAISE == "TAG_RAISE"
TAG_BREAK == "TAG_BREAK"
\* The block has been entered and has not come back yet.
TAG_RUNNING == "TAG_RUNNING"

Return(val) == [kind |-> "return", val |-> val, err |-> ""]
Raise(err) == [kind |-> "raise", val |-> Qnil, err |-> err]
\* No call has completed yet.
NoOutcome == [kind |-> "none", val |-> Qnil, err |-> ""]

\* git_remote as kept in memory: name is Qnil for an anonymous remote.
Remote(name, url) == [t |-> "remote", name |-> name, url |-> url]
Enumerator(meth) == [t |-> "enum", v |-> meth]

\* One entry of a call's log of store calls: the function, the name or URL it
\* was given and the code it returned.
StoreCall(fn, arg, error) == [fn |-> fn, arg |-> arg, error |-> error]

\* ------------------------------------------------- the configuration store
\* The store is the ordered list of [name, url] records of the repository's
\* configuration.
StoreNames(st) == {st[k].name : k \in 1..Len(st)}

StoreIndex(st, name) == CHOOSE k \in 1..Len(st) : st[k].name = name

RemoveAt(st, k) == [j \in 1..(Len(st) - 1) |-> IF j < k THEN st[j] ELSE st[j + 1]]

\* git_remote_list: the names, in configuration order.
git_remote_list(st, fault) ==
    IF fault THEN [error |-> GIT_ERROR, strings |-> << >>]
    ELSE [error |-> GIT_OK, strings |-> [k \in 1..Len(st) |-> st[k].name]]

\* git_remote_load: the record of that name, GIT_ENOTFOUND when there is none.
git_remote_load(st, name, fault) ==
    IF fault THEN [error |-> GIT_ERROR, remote |-> Qnil]
    ELSE IF name \in StoreNames(st)
         THEN [error |-> GIT_OK,
               remote |-> Remote(Str(name), st[StoreIndex(st, name)].url)]
         ELSE [error |-> GIT_ENOTFOUND, remote |-> Qnil]

\* git_remote_create: appends a record unless the name is invalid or taken.
git_remote_create(st, name, url, fault) ==
    IF fault THEN [error |-> GIT_ERROR, remote |-> Qnil, store |-> st]
    ELSE IF name = "" THEN [error |-> GIT_EINVALIDSPEC, remote |-> Qnil, store |-> st]
    ELSE IF name \in StoreNames(st)
         THEN [error |-> GIT_EEXISTS, remote |-> Qnil, store |-> st]
         ELSE [error |-> GIT_OK, remote |-> Remote(Str(name), url),
               store |-> Append(st, [name |-> name, url |-> url])]

\* git_remote_create_anonymous: an in-memory remote without a name.
git_remote_create_anonymous(st, url, fault) ==
    IF fault THEN [error |-> GIT_ERROR, remote |-> Qnil, store |-> st]
    ELSE [error |-> GIT_OK, remote |-> Remote(Qnil, url), store |-> st]

\* git_remote_delete: removes the record of that name.
git_remote_delete(st, name, fault) ==
    IF fault THEN [error |-> GIT_ERROR, store |-> st]
    ELSE IF name \in StoreNames(st)
         THEN [error |-> GIT_OK, store |-> RemoveAt(st, StoreIndex(st, name))]
         ELSE [error |-> GIT_ENOTFOUND, store |-> st]

\* rugged_validate_remote_url: rejects an empty or malformed URL.
rugged_validate_remote_url(url) == url # ""

\* rugged_check_repo: the owner must be a usable Rugged::Repository.
rugged_check_repo(repo) == repo = "Repository"

\* rugged_exception_check: a non-zero libgit2 code is raised as the
\* exception of that code; rugged_remote_new wraps the git_remote.
rugged_exception_check(error, val) ==
    IF error # GIT_OK THEN Raise(error) ELSE Return(val)

\* ------------------------------------------------------------------ state
VARIABLES
    rb_repo,      \* the owner given to RemoteCollection.new
    store,        \* the repository's configured remotes
    named,        \* names added by a successful create and not deleted since
    last,         \* the last call the collection's caller has seen complete
    pc,           \* position of the running each/each_name: idle, loop,
                  \* yield, ret
    only_names,   \* mode of the running each call
    driven,       \* whether an enumerator made the call
    remotes,      \* git_strarray filled by git_remote_list
    i,            \* loop index, 0-based as in the code
    error,        \* libgit2 code of the last store call of the loop
    exception,    \* rb_protect state of the last yield
    freed,        \* number of git_strarray_free calls of the running call
    visits,       \* values yielded to the block so far, each with the state
                  \* rb_protect reported for it
    calls,        \* store calls made by the running each call, in order
    mutated,      \* whether the store has changed since the running call's
                  \* git_remote_list
    enumerators   \* enumerators returned by block-less calls

frame == << pc, only_names, driven, remotes, i, error, exception, freed,
            visits, calls, mutated >>

vars == << rb_repo, store, named, last, frame, enumerators >>

\* The record of a completed call: what was asked, the store before it, the
\* store calls it made, its outcome and, for each/each_name, the snapshot, what
\* the block was given and how often the snapshot was freed.
CallRecord(op, args, pre, cs, outcome, snap, vs, fr, mut) ==
    [op |-> op, args |-> args, pre |-> pre, calls |-> cs, outcome |-> outcome,
     remotes |-> snap, visits |-> vs, freed |-> fr, mutated |-> mut]

NoCall == CallRecord("none", << >>, << >>, << >>, NoOutcome, << >>, << >>, 0, FALSE)

\* The locals of rb_git_remote_collection__each while no call is running.
NoFrame ==
    /\ pc = "idle"
    /\ only_names = FALSE
    /\ driven = FALSE
    /\ remotes = << >>
    /\ i = 0
    /\ error = GIT_OK
    /\ exception = TAG_NONE
    /\ freed = 0
    /\ visits = << >>
    /\ calls = << >>
    /\ mutated = FALSE

\* RemoteCollection.new(repo): rugged_set_owner keeps whatever it is given.
Init ==
    /\ rb_repo \in {"Repository", "NotARepository"}
    /\ store = << >>
    /\ named = {}
    /\ last = NoCall
    /\ NoFrame
    /\ enumerators = {}

\* ------------------------------------------------------- create_anonymous
\* Variant: the owner is not checked before the store is called.
MutCreateAnonymousNoRepoCheck(repo, st, rb_url, fault) ==
    IF rb_url.t # "str"
    THEN [outcome |-> Raise("TypeError"), calls |-> << >>, store |-> st]
    ELSE IF ~rugged_validate_remote_url(rb_url.v)
    THEN [outcome |-> Raise("ArgumentError"), calls |-> << >>, store |-> st]
    ELSE LET r == git_remote_create_anonymous(st, rb_url.v, fault)
         IN [outcome |-> rugged_exception_check(r.error, r.remote),
             calls |-> << StoreCall("git_remote_create_anonymous", rb_url.v, r.error) >>,
             store |-> r.store]

\* Variant: the remote is created with git_remote_create under its URL as
\* name, which persists it.
MutCreateAnonymousPersists(repo, st, rb_url, fault) ==
    IF ~rugged_check_repo(repo)
    THEN [outcome |-> Raise("RepositoryUnavailable"), calls |-> << >>, store |-> st]
    ELSE IF rb_url.t # "str"
    THEN [outcome |-> Raise("TypeError"), calls |-> << >>, store |-> st]
    ELSE IF ~rugged_validate_remote_url(rb_url.v)
    THEN [outcome |-> Raise("ArgumentError"), calls |-> << >>, store |-> st]
    ELSE LET r == git_remote_create(st, rb_url.v, rb_url.v, fault)
         IN [outcome |-> rugged_exception_check(r.error, Remote(Qnil, rb_url.v)),
             calls |-> << StoreCall("git_remote_create", rb_url.v, r.error) >>,
             store |-> r.store]

rb_git_remote_collection_create_anonymous(repo, st, rb_url, fault) ==
    IF ~rugged_check_repo(repo)
    THEN [outcome |-> Raise("RepositoryUnavailable"), calls |-> << >>, store |-> st]
    ELSE IF rb_url.t # "str"
    THEN [outcome |-> Raise("TypeError"), calls |-> << >>, store |-> st]
    ELSE IF ~rugged_validate_remote_url(rb_url.v)
    THEN [outcome |-> Raise("ArgumentError"), calls |-> << >>, store |-> st]
    ELSE LET r == git_remote_create_anonymous(st, rb_url.v, fault)
         IN [outcome |-> rugged_exception_check(r.error, r.remote),
             calls |-> << StoreCall("git_remote_create_anonymous", rb_url.v, r.error) >>,
             store |-> r.store]

\* ----------------------------------------------------------------- create
\* Variant: the URL is validated after git_remote_create has been called.
MutCreateValidatesLate(repo, st, rb_name, rb_url, fault) ==
    IF ~rugged_check_repo(repo)
    THEN [outcome |-> Raise("RepositoryUnavailable"), calls |-> << >>, store |-> st]
    ELSE IF rb_name.t # "str"
    THEN [outcome |-> Raise("TypeError"), calls |-> << >>, store |-> st]
    ELSE IF rb_url.t # "str"
    THEN [outcome |-> Raise("TypeError"), calls |-> << >>, store |-> st]
    ELSE LET r == git_remote_create(st, rb_name.v, rb_url.v, fault)
         IN [outcome |-> IF ~rugged_validate_remote_url(rb_url.v)
                         THEN Raise("ArgumentError")
                         ELSE rugged_exception_check(r.error, r.remote),
             calls |-> << StoreCall("git_remote_create", rb_name.v, r.error) >>,
             store |-> r.store]

\* Variant: name and URL are handed to git_remote_create in the wrong order.
MutCreateSwapsArguments(repo, st, rb_name, rb_url, fault) ==
    IF ~rugged_check_repo(repo)
    THEN [outcome |-> Raise("RepositoryUnavailable"), calls |-> << >>, store |-> st]
    ELSE IF rb_name.t # "str"
    THEN [outcome |-> Raise("TypeError"), calls |-> << >>, store |-> st]
    ELSE IF rb_url.t # "str"
    THEN [outcome |-> Raise("TypeError"), calls |-> << >>, store |-> st]
    ELSE IF ~rugged_validate_remote_url(rb_url.v)
    THEN [outcome |-> Raise("ArgumentError"), calls |-> << >>, store |-> st]
    ELSE LET r == git_remote_create(st, rb_url.v, rb_name.v, fault)
         IN [outcome |-> rugged_exception_check(r.error, r.remote),
             calls |-> << StoreCall("git_remote_create", rb_url.v, r.error) >>,
             store |-> r.store]

\* Variant: the code git_remote_create returns is not checked.
MutCreateIgnoresError(repo, st, rb_name, rb_url, fault) ==
    IF ~rugged_check_repo(repo)
    THEN [outcome |-> Raise("RepositoryUnavailable"), calls |-> << >>, store |-> st]
    ELSE IF rb_name.t # "str"
    THEN [outcome |-> Raise("TypeError"), calls |-> << >>, store |-> st]
    ELSE IF rb_url.t # "str"
    THEN [outcome |-> Raise("TypeError"), calls |-> << >>, store |-> st]
    ELSE IF ~rugged_validate_remote_url(rb_url.v)
    THEN [outcome |-> Raise("ArgumentError"), calls |-> << >>, store |-> st]
    ELSE LET r == git_remote_create(st, rb_name.v, rb_url.v, fault)
         IN [outcome |-> Return(Remote(rb_name, rb_url.v)),
             calls |-> << StoreCall("git_remote_create", rb_name.v, r.error) >>,
             store |-> r.store]

rb_git_remote_collection_create(repo, st, rb_name, rb_url, fault) ==
    IF ~rugged_check_repo(repo)
    THEN [outcome |-> Raise("RepositoryUnavailable"), calls |-> << >>, store |-> st]
    ELSE IF rb_name.t # "str"
    THEN [outcome |-> Raise("TypeError"), calls |-> << >>, store |-> st]
    ELSE IF rb_url.t # "str"
    THEN [outcome |-> Raise("TypeError"), calls |-> << >>, store |-> st]
    ELSE IF ~rugged_validate_remote_url(rb_url.v)
    THEN [outcome |-> Raise("ArgumentError"), calls |-> << >>, store |-> st]
    ELSE LET r == git_remote_create(st, rb_name.v, rb_url.v, fault)
         IN [outcome |-> rugged_exception_check(r.error, r.remote),
             calls |-> << StoreCall("git_remote_create", rb_name.v, r.error) >>,
             store |-> r.store]

\* --------------------------------------------------------------------- []
\* Variant: every failure of git_remote_load is answered with nil.
MutArefNilOnAnyError(repo, st, rb_name, fault) ==
    IF ~rugged_check_repo(repo)
    THEN [outcome |-> Raise("RepositoryUnavailable"), calls |-> << >>, store |-> st]
    ELSE IF rb_name.t # "str"
    THEN [outcome |-> Raise("TypeError"), calls |-> << >>, store |-> st]
    ELSE LET r == git_remote_load(st, rb_name.v, fault)
         IN [outcome |-> IF r.error # GIT_OK THEN Return(Qnil)
                         ELSE Return(r.remote),
             calls |-> << StoreCall("git_remote_load", rb_name.v, r.error) >>,
             store |-> st]

rb_git_remote_collection_aref(repo, st, rb_name, fault) ==
    IF ~rugged_check_repo(repo)
    THEN [outcome |-> Raise("RepositoryUnavailable"), calls |-> << >>, store |-> st]
    ELSE IF rb_name.t # "str"
    THEN [outcome |-> Raise("TypeError"), calls |-> << >>, store |-> st]
    ELSE LET r == git_remote_load(st, rb_name.v, fault)
         IN [outcome |-> IF r.error = GIT_ENOTFOUND THEN Return(Qnil)
                         ELSE rugged_exception_check(r.error, r.remote),
             calls |-> << StoreCall("git_remote_load", rb_name.v, r.error) >>,
             store |-> st]

\* ----------------------------------------------------------------- delete
\* Variant: the argument's type is not checked; a value without a string is
\* handed to the store as the empty name.
MutDeleteNoTypeCheck(repo, st, rb_name_or_remote, fault) ==
    LET arg == IF rb_name_or_remote.t = "remote" THEN rb_name_or_remote.name
               ELSE rb_name_or_remote
        name == IF arg.t = "str" THEN arg.v ELSE ""
    IN IF ~rugged_check_repo(repo)
       THEN [outcome |-> Raise("RepositoryUnavailable"), calls |-> << >>, store |-> st]
       ELSE LET r == git_remote_delete(st, name, fault)
            IN [outcome |-> rugged_exception_check(r.error, Qnil),
                calls |-> << StoreCall("git_remote_delete", name, r.error) >>,
                store |-> r.store]

\* Variant: a name the store does not know is answered with nil.
MutDeleteToleratesNotFound(repo, st, rb_name_or_remote, fault) ==
    LET arg == IF rb_name_or_remote.t = "remote" THEN rb_name_or_remote.name
               ELSE rb_name_or_remote
    IN IF arg.t # "str"
       THEN [outcome |-> Raise("TypeError"), calls |-> << >>, store |-> st]
       ELSE IF ~rugged_check_repo(repo)
       THEN [outcome |-> Raise("RepositoryUnavailable"), calls |-> << >>, store |-> st]
       ELSE LET r == git_remote_delete(st, arg.v, fault)
            IN [outcome |-> IF r.error = GIT_ENOTFOUND THEN Return(Qnil)
                            ELSE rugged_exception_check(r.error, Qnil),
                calls |-> << StoreCall("git_remote_delete", arg.v, r.error) >>,
                store |-> r.store]

\* Variant: the code git_remote_delete returns is not checked.
MutDeleteIgnoresError(repo, st, rb_name_or_remote, fault) ==
    LET arg == IF rb_name_or_remote.t = "remote" THEN rb_name_or_remote.name
               ELSE rb_name_or_remote
    IN IF arg.t # "str"
       THEN [outcome |-> Raise("TypeError"), calls |-> << >>, store |-> st]
       ELSE IF ~rugged_check_repo(repo)
       THEN [outcome |-> Raise("RepositoryUnavailable"), calls |-> << >>, store |-> st]
       ELSE LET r == git_remote_delete(st, arg.v, fault)
            IN [outcome |-> Return(Qnil),
                calls |-> << StoreCall("git_remote_delete", arg.v, r.error) >>,
                store |-> r.store]

\* Variant: the owner is checked before the argument's type.
MutDeleteRepoCheckFirst(repo, st, rb_name_or_remote, fault) ==
    LET arg == IF rb_name_or_remote.t = "remote" THEN rb_name_or_remote.name
               ELSE rb_name_or_remote
    IN IF ~rugged_check_repo(repo)
       THEN [outcome |-> Raise("RepositoryUnavailable"), calls |-> << >>, store |-> st]
       ELSE IF arg.t # "str"
       THEN [outcome |-> Raise("TypeError"), calls |-> << >>, store |-> st]
       ELSE LET r == git_remote_delete(st, arg.v, fault)
            IN [outcome |-> rugged_exception_check(r.error, Qnil),
                calls |-> << StoreCall("git_remote_delete", arg.v, r.error) >>,
                store |-> r.store]

\* A Rugged::Remote argument is replaced by its name (nil when anonymous).
rb_git_remote_collection_delete(repo, st, rb_name_or_remote, fault) ==
    LET arg == IF rb_name_or_remote.t = "remote" THEN rb_name_or_remote.name
               ELSE rb_name_or_remote
    IN IF arg.t # "str"
       THEN [outcome |-> Raise("TypeError"), calls |-> << >>, store |-> st]
       ELSE IF ~rugged_check_repo(repo)
       THEN [outcome |-> Raise("RepositoryUnavailable"), calls |-> << >>, store |-> st]
       ELSE LET r == git_remote_delete(st, arg.v, fault)
            IN [outcome |-> rugged_exception_check(r.error, Qnil),
                calls |-> << StoreCall("git_remote_delete", arg.v, r.error) >>,
                store |-> r.store]

\* ------------------------------------------------ arguments callers offer
NameArgs == {Str(n) : n \in NameStrings} \cup {Qnil}
UrlArgs == {Str(u) : u \in UrlStrings} \cup {Qnil}
DeleteArgs ==
    {Str(n) : n \in NameStrings}
    \cup {Remote(Str(n), "u1") : n \in NameStrings \ {""}}
    \cup {Remote(Qnil, "u1")}
    \cup {Qnil, Fixnum}

\* A call of create, create_anonymous, [] or delete runs to completion. It
\* comes from the collection's caller (pc = "idle"), who sees it complete,
\* from the block of the running each (pc = "yield"), or from another user of
\* the same repository between the snapshot and the first turn of the loop
\* (later turns see nothing of another user that the block before them could
\* not have done).
Completed(op, args, r) ==
    /\ pc \in {"idle", "yield"} \/ (pc = "loop" /\ i = 0)
    /\ Len(r.store) <= MaxRemotes
    /\ store' = r.store
    /\ named' = IF op = "create" /\ r.outcome.kind = "return"
                THEN named \cup {args[1].v}
                ELSE IF op = "delete" /\ r.outcome.kind = "return"
                THEN named \ {IF args[1].t = "remote" THEN args[1].name.v
                              ELSE args[1].v}
                ELSE named
    /\ last' = IF pc = "idle"
               THEN CallRecord(op, args, store, r.calls, r.outcome, << >>, << >>, 0, FALSE)
               ELSE last
    /\ mutated' = (mutated \/ (pc # "idle" /\ r.store # store))
    /\ UNCHANGED << rb_repo, pc, only_names, driven, remotes, i, error, exception,
                    freed, visits, calls, enumerators >>

CreateAnonymous ==
    \E rb_url \in UrlArgs, fault \in BOOLEAN :
        Completed("create_anonymous", << rb_url >>,
                  rb_git_remote_collection_create_anonymous(rb_repo, store, rb_url, fault))

Create ==
    \E rb_name \in NameArgs, rb_url \in UrlArgs, fault \in BOOLEAN :
        Completed("create", << rb_name, rb_url >>,
                  rb_git_remote_collection_create(rb_repo, store, rb_name, rb_url, fault))

Aref ==
    \E rb_name \in NameArgs, fault \in BOOLEAN :
        Completed("aref", << rb_name >>,
                  rb_git_remote_collection_aref(rb_repo, store, rb_name, fault))

Delete ==
    \E arg \in DeleteArgs, fault \in BOOLEAN :
        Completed("delete", << arg >>,
                  rb_git_remote_collection_delete(rb_repo, store, arg, fault))

\* ------------------------------------------------------ each / each_name
\* Variant: the loops go on after the block has raised or broken out.
MutLoopCondIgnoresException(names, exc, err, idx, count) ==
    IF names THEN idx < count
    ELSE err = GIT_OK /\ idx < count

\* Variant: each uses the loop condition of each_name, without !error.
MutLoopCondIgnoresError(names, exc, err, idx, count) ==
    exc = TAG_NONE /\ idx < count

\* Variant: the loops stop one entry early.
MutLoopCondStopsEarly(names, exc, err, idx, count) ==
    IF names THEN exc = TAG_NONE /\ idx + 1 < count
    ELSE exc = TAG_NONE /\ err = GIT_OK /\ idx + 1 < count

\* The loop conditions of the two modes (0-based i, count entries).
LoopCond(names, exc, err, idx, count) ==
    IF names THEN exc = TAG_NONE /\ idx < count
    ELSE exc = TAG_NONE /\ err = GIT_OK /\ idx < count

\* What a finished each call hands to its caller: the block's jump first,
\* then the store's error, then nil.
EachOutcome(exc, err) ==
    IF exc # TAG_NONE THEN [kind |-> "jump", val |-> Qnil, err |-> exc]
    ELSE rugged_exception_check(err, Qnil)

\* Variant: the snapshot is read from its end.
MutSnapshotEntryFromEnd(rems, idx) == rems[Len(rems) - idx]

\* remotes.strings[i], i counted from 0.
SnapshotEntry(rems, idx) == rems[idx + 1]

MethodName(names) == IF names THEN "each_name" ELSE "each"

\* Variant: the code git_remote_list returns is not checked; the loop is
\* entered with whatever the list holds.
MutEachEnterIgnoresListError(names, given, byEnum) ==
    /\ pc = "idle"
    /\ IF ~given
       THEN /\ last' = CallRecord(MethodName(names), << given, byEnum >>, store, << >>,
                                  Return(Enumerator(MethodName(names))),
                                  << >>, << >>, 0, FALSE)
            /\ enumerators' = enumerators \cup {MethodName(names)}
            /\ UNCHANGED frame
       ELSE /\ UNCHANGED enumerators
            /\ IF ~rugged_check_repo(rb_repo)
               THEN /\ last' = CallRecord(MethodName(names), << given, byEnum >>,
                                          store, << >>,
                                          Raise("RepositoryUnavailable"),
                                          << >>, << >>, 0, FALSE)
                    /\ UNCHANGED frame
               ELSE \E fault \in BOOLEAN :
                      LET r == git_remote_list(store, fault)
                      IN /\ last' = NoCall
                         /\ pc' = "loop"
                         /\ only_names' = names
                         /\ driven' = byEnum
                         /\ remotes' = r.strings
                         /\ calls' = << StoreCall("git_remote_list", "", r.error) >>
                         /\ UNCHANGED << i, error, exception, freed, visits, mutated >>
    /\ UNCHANGED << rb_repo, store, named >>

\* Entry of rb_git_remote_collection__each up to the loop. Without a block the
\* call is over at once, as it is when the owner is no repository or the list
\* cannot be read.
EachEnter(names, given, byEnum) ==
    /\ pc = "idle"
    /\ IF ~given
       THEN /\ last' = CallRecord(MethodName(names), << given, byEnum >>, store, << >>,
                                  Return(Enumerator(MethodName(names))),
                                  << >>, << >>, 0, FALSE)
            /\ enumerators' = enumerators \cup {MethodName(names)}
            /\ UNCHANGED frame
       ELSE /\ UNCHANGED enumerators
            /\ IF ~rugged_check_repo(rb_repo)
               THEN /\ last' = CallRecord(MethodName(names), << given, byEnum >>,
                                          store, << >>,
                                          Raise("RepositoryUnavailable"),
                                          << >>, << >>, 0, FALSE)
                    /\ UNCHANGED frame
               ELSE \E fault \in BOOLEAN :
                      LET r == git_remote_list(store, fault)
                      IN IF r.error # GIT_OK
                         THEN /\ last' = CallRecord(MethodName(names),
                                                    << given, byEnum >>, store,
                                                    << StoreCall("git_remote_list", "", r.error) >>,
                                                    Raise(r.error), << >>, << >>, 0, FALSE)
                              /\ UNCHANGED frame
                         ELSE /\ last' = NoCall
                              /\ pc' = "loop"
                              /\ only_names' = names
                              /\ driven' = byEnum
                              /\ remotes' = r.strings
                              /\ calls' = << StoreCall("git_remote_list", "", r.error) >>
                              /\ UNCHANGED << i, error, exception, freed, visits, mutated >>
    /\ UNCHANGED << rb_repo, store, named >>

\* remotes.each { |remote| } / remotes.each
Each == \E given \in BOOLEAN : EachEnter(FALSE, given, FALSE)

\* remotes.each_name { |str| } / remotes.each_name
EachName == \E given \in BOOLEAN : EachEnter(TRUE, given, FALSE)

\* Variant: the two to_enum calls name each other's method.
MutEnumeratorEachWrongMethod ==
    \E meth \in enumerators : EachEnter(meth # "each_name", TRUE, TRUE)

\* Driving an enumerator calls the method it was made for, with a block.
EnumeratorEach == \E meth \in enumerators : EachEnter(meth = "each_name", TRUE, TRUE)

\* Variant: each_name loads every name too and stops at one that is gone.
MutEachLoopNamesLoad ==
    /\ pc = "loop"
    /\ LoopCond(FALSE, exception, error, i, Len(remotes))
    /\ \E fault \in BOOLEAN :
         LET r == git_remote_load(store, SnapshotEntry(remotes, i), fault)
         IN /\ calls' = Append(calls, StoreCall("git_remote_load",
                                                SnapshotEntry(remotes, i), r.error))
            /\ error' = r.error
            /\ IF r.error = GIT_OK
               THEN /\ visits' = Append(visits,
                                        [val |-> IF only_names
                                                 THEN Str(SnapshotEntry(remotes, i))
                                                 ELSE r.remote,
                                         state |-> TAG_RUNNING])
                    /\ pc' = "yield"
                    /\ UNCHANGED << i, exception >>
               ELSE /\ i' = i + 1
                    /\ pc' = "loop"
                    /\ UNCHANGED << visits, exception >>
    /\ UNCHANGED << rb_repo, store, named, last, only_names, driven, remotes,
                    freed, mutated, enumerators >>

\* One turn of the loop up to the entry of the block: the condition, for
\* each the load of the i-th name, then the yield.
EachLoop ==
    /\ pc = "loop"
    /\ LoopCond(only_names, exception, error, i, Len(remotes))
    /\ IF only_names
       THEN /\ visits' = Append(visits, [val |-> Str(SnapshotEntry(remotes, i)),
                                         state |-> TAG_RUNNING])
            /\ pc' = "yield"
            /\ UNCHANGED << i, error, exception, calls >>
       ELSE \E fault \in BOOLEAN :
              LET r == git_remote_load(store, SnapshotEntry(remotes, i), fault)
              IN /\ calls' = Append(calls, StoreCall("git_remote_load",
                                                     SnapshotEntry(remotes, i), r.error))
                 /\ error' = r.error
                 /\ IF r.error = GIT_OK
                    THEN /\ visits' = Append(visits, [val |-> r.remote,
                                                      state |-> TAG_RUNNING])
                         /\ pc' = "yield"
                         /\ UNCHANGED << i, exception >>
                    ELSE /\ i' = i + 1
                         /\ pc' = "loop"
                         /\ UNCHANGED << visits, exception >>
    /\ UNCHANGED << rb_repo, store, named, last, only_names, driven, remotes,
                    freed, mutated, enumerators >>

\* Variant: the state rb_protect reports is not kept.
MutEachYieldDropsState ==
    /\ pc = "yield"
    /\ \E state \in {TAG_NONE, TAG_RAISE, TAG_BREAK} :
         /\ exception' = TAG_NONE
         /\ visits' = [visits EXCEPT ![Len(visits)].state = state]
    /\ i' = i + 1
    /\ pc' = "loop"
    /\ UNCHANGED << rb_repo, store, named, last, only_names, driven, remotes,
                    error, freed, calls, mutated, enumerators >>

\* Variant: the loop index stays where it is when the block comes back.
MutEachYieldNoIncrement ==
    /\ pc = "yield"
    /\ \E state \in {TAG_NONE, TAG_RAISE, TAG_BREAK} :
         /\ exception' = state
         /\ visits' = [visits EXCEPT ![Len(visits)].state = state]
    /\ pc' = "loop"
    /\ UNCHANGED << rb_repo, store, named, last, only_names, driven, remotes, i,
                    error, freed, calls, mutated, enumerators >>

\* The block comes back: rb_protect stores its state, then ++i.
EachYield ==
    /\ pc = "yield"
    /\ \E state \in {TAG_NONE, TAG_RAISE, TAG_BREAK} :
         /\ exception' = state
         /\ visits' = [visits EXCEPT ![Len(visits)].state = state]
    /\ i' = i + 1
    /\ pc' = "loop"
    /\ UNCHANGED << rb_repo, store, named, last, only_names, driven, remotes,
                    error, freed, calls, mutated, enumerators >>

\* Variant: the names are released only when no load failed.
MutEachFreeSkipsOnError ==
    /\ pc = "loop"
    /\ ~LoopCond(only_names, exception, error, i, Len(remotes))
    /\ freed' = IF error # GIT_OK THEN freed ELSE freed + 1
    /\ pc' = "ret"
    /\ UNCHANGED << rb_repo, store, named, last, only_names, driven, remotes, i,
                    error, exception, visits, calls, mutated, enumerators >>

\* The loop is left: git_strarray_free(&remotes)
EachFree ==
    /\ pc = "loop"
    /\ ~LoopCond(only_names, exception, error, i, Len(remotes))
    /\ freed' = freed + 1
    /\ pc' = "ret"
    /\ UNCHANGED << rb_repo, store, named, last, only_names, driven, remotes, i,
                    error, exception, visits, calls, mutated, enumerators >>

\* rb_jump_tag / rugged_exception_check / return Qnil: the call is over and
\* its locals are gone.
EachReturn ==
    /\ pc = "ret"
    /\ last' = CallRecord(MethodName(only_names), << TRUE, driven >>, store, calls,
                          EachOutcome(exception, error), remotes, visits, freed,
                          mutated)
    /\ pc' = "idle"
    /\ only_names' = FALSE
    /\ driven' = FALSE
    /\ remotes' = << >>
    /\ i' = 0
    /\ error' = GIT_OK
    /\ exception' = TAG_NONE
    /\ freed' = 0
    /\ visits' = << >>
    /\ calls' = << >>
    /\ mutated' = FALSE
    /\ UNCHANGED << rb_repo, store, named, enumerators >>

Next ==
    \/ CreateAnonymous
    \/ Create
    \/ Aref
    \/ Delete
    \/ Each
    \/ EachName
    \/ EnumeratorEach
    \/ EachLoop
    \/ EachYield
    \/ EachFree
    \/ EachReturn

Spec == Init /\ [][Next]_vars

\* The interpreter keeps running a call it has entered, and a block whose
\* every run ends gives control back to rb_protect.
FairSpec ==
    /\ Spec
    /\ WF_vars(EachLoop)
    /\ WF_vars(EachYield)
    /\ WF_vars(EachFree)
    /\ WF_vars(EachReturn)

\* ------------------------------------------------------------ observation
\* An each/each_name call is observed while it runs (its locals) and once it
\* is over (its record in last).
Running == pc # "idle"

Finished == last.op \in {"each", "each_name"} /\ last.args[1]

ObsNamesMode == IF Running THEN only_names ELSE last.op = "each_name"
ObsVisits == IF Running THEN visits ELSE last.visits
ObsCalls == IF Running THEN calls ELSE last.calls
ObsRemotes == IF Running THEN remotes ELSE last.remotes

Loads(cs) == Cardinality({k \in 1..Len(cs) : cs[k].fn = "git_remote_load"})

Failed(v) == v.state \in {TAG_RAISE, TAG_BREAK}

\* The name a visit was about: the string itself, or the handle's name.
VisitName(v) == IF v.val.t = "remote" THEN v.val.name ELSE v.val

RepoValid == rugged_check_repo(rb_repo)

\* ------------------------------------------------------------------ claims

\* C1: in each and each_name, when the block fails (raises or breaks) on the
\* k-th snapshot name, that visit is the last one, no git_remote_load follows
\* it, and the call ends with exactly the block's jump.
C1_VisitorFailureStops ==
    (Running \/ Finished) =>
        \A k \in 1..Len(ObsVisits) :
            Failed(ObsVisits[k]) =>
                /\ k = Len(ObsVisits)
                /\ Loads(ObsCalls) = (IF ObsNamesMode THEN 0 ELSE k)
                /\ Running => (pc \in {"loop", "ret"} /\ exception = ObsVisits[k].state)
                /\ ~Running => last.outcome = [kind |-> "jump", val |-> Qnil,
                                               err |-> ObsVisits[k].state]

\* An each over two names whose block raised on the first: the second name,
\* still in the store, was neither loaded nor visited.
C1_Witness ==
    /\ ~Running
    /\ last.op = "each"
    /\ last.args[1]
    /\ Len(last.remotes) = 2
    /\ Len(last.visits) = 1
    /\ last.visits[1].state = TAG_RAISE
    /\ last.remotes[2] \in StoreNames(store)
    /\ last.outcome.kind = "jump"

\* C2: in each, when git_remote_load finds a snapshot name gone
\* (GIT_ENOTFOUND), it is the call's last store call, the name is not given
\* to the block, every visit so far is of an earlier name, and the call ends
\* raising that error.
C2_MissingNameAborts ==
    ((Running \/ Finished) /\ ~ObsNamesMode) =>
        \A k \in 1..Len(ObsCalls) :
            (ObsCalls[k].fn = "git_remote_load" /\ ObsCalls[k].error = GIT_ENOTFOUND) =>
                /\ k = Len(ObsCalls)
                /\ Len(ObsVisits) = k - 2
                /\ ObsCalls[k].arg = ObsRemotes[k - 1]
                /\ \A j \in 1..Len(ObsVisits) : VisitName(ObsVisits[j]) # Str(ObsCalls[k].arg)
                /\ Running => (pc \in {"loop", "ret"} /\ error = GIT_ENOTFOUND)
                /\ ~Running => last.outcome = Raise(GIT_ENOTFOUND)

\* An each over two names, the first deleted after the snapshot: nothing was
\* visited, and the second name, still in the store, was never loaded.
C2_Witness ==
    /\ ~Running
    /\ last.op = "each"
    /\ last.args[1]
    /\ Len(last.remotes) = 2
    /\ last.remotes[1] \notin StoreNames(store)
    /\ last.remotes[2] \in StoreNames(store)
    /\ last.visits = << >>
    /\ Len(last.calls) = 2
    /\ last.outcome = Raise(GIT_ENOTFOUND)

\* C3: an each_name with a block that never fails gives the block every name
\* of the snapshot once, in the snapshot's order, makes no git_remote_load and
\* returns nil; the snapshot is what git_remote_list returns (the store's
\* order, unsorted), as seen when the store did not change meanwhile; an empty
\* snapshot gives no visit and nil.
C3_EachNameComplete ==
    (/\ ~Running
     /\ last.op = "each_name"
     /\ last.args[1]
     /\ RepoValid
     /\ last.calls[1].error = GIT_OK
     /\ \A k \in 1..Len(last.visits) : ~Failed(last.visits[k]))
    => /\ Len(last.visits) = Len(last.remotes)
       /\ \A k \in 1..Len(last.visits) : last.visits[k].val = Str(last.remotes[k])
       /\ Loads(last.calls) = 0
       /\ last.outcome = Return(Qnil)
       /\ ~last.mutated => last.remotes = git_remote_list(store, FALSE).strings

\* Two names stored as b, a and visited as b, a.
C3_Witness ==
    /\ ~Running
    /\ last.op = "each_name"
    /\ last.args[1]
    /\ ~last.mutated
    /\ last.remotes = << "b", "a" >>
    /\ Len(last.visits) = 2
    /\ last.visits[1].val = Str("b")
    /\ last.visits[2].val = Str("a")
    /\ last.outcome = Return(Qnil)

\* C4: a call that got past the repository check calls git_remote_list once,
\* as its first store call, and at every point the names visited so far are a
\* prefix of that snapshot, whatever is created or deleted meanwhile.
C4_VisitsPrefixOfSnapshot ==
    (Running \/ (Finished /\ last.calls # << >>)) =>
        /\ ObsCalls[1].fn = "git_remote_list"
        /\ \A k \in 2..Len(ObsCalls) : ObsCalls[k].fn # "git_remote_list"
        /\ Len(ObsVisits) <= Len(ObsRemotes)
        /\ \A k \in 1..Len(ObsVisits) : VisitName(ObsVisits[k]) = Str(ObsRemotes[k])

\* A running each_name that has visited its whole snapshot while the store
\* holds a name created after the snapshot.
C4_Witness ==
    /\ Running
    /\ pc = "loop"
    /\ only_names
    /\ Len(remotes) >= 1
    /\ Len(visits) = Len(remotes)
    /\ \E n \in StoreNames(store) : \A k \in 1..Len(remotes) : remotes[k] # n

\* C5: when the owner is no valid repository, no call of any method makes a
\* store call, and the store is as it was before the call.
C5_InvalidRepoNoStoreCall ==
    ~RepoValid =>
        /\ ~Running
        /\ calls = << >>
        /\ last.calls = << >>
        /\ store = last.pre

\* An enumerator made by each_name was driven on an invalid repository.
C5_Witness ==
    /\ ~RepoValid
    /\ last.op = "each_name"
    /\ last.args = << TRUE, TRUE >>
    /\ last.outcome = Raise("RepositoryUnavailable")
    /\ last.calls = << >>

DeleteArgIsName(arg) ==
    arg.t = "str" \/ (arg.t = "remote" /\ arg.name.t = "str")

C7_AbsentIffNotFound ==
    last.op = "aref" =>
        /\ (last.outcome = Return(Qnil))
              <=> (last.calls # << >> /\ last.calls[1].error = GIT_ENOTFOUND)
        /\ (last.calls # << >> /\ last.calls[1].error \notin {GIT_OK, GIT_ENOTFOUND})
              => last.outcome = Raise(last.calls[1].error)
        /\ (last.calls # << >> /\ last.calls[1].error = GIT_OK)
              => (last.outcome.kind = "return" /\ last.outcome.val.t = "remote")
        /\ (RepoValid /\ last.pre = << >> /\ last.args[1].t = "str"
            /\ last.calls[1].error # GIT_ERROR)
              => last.outcome = Return(Qnil)

\* A load the store failed was raised, not answered with nil.
C7_Witness ==
    /\ last.op = "aref"
    /\ last.calls # << >>
    /\ last.calls[1].error = GIT_ERROR
    /\ last.outcome = Raise(GIT_ERROR)

\* The arguments of the last call are a valid name and a valid URL.
ValidPair(args) ==
    /\ args[1].t = "str"
    /\ args[1].v # ""
    /\ args[2].t = "str"
    /\ rugged_validate_remote_url(args[2].v)

\* C8: create(name, url) with a valid pair, a name not yet stored, a valid
\* repository and a store that does not fail returns a remote, and [] of that
\* name right after it returns a remote with that name and that URL.
C8_CreateThenLookup ==
    (/\ last.op = "create"
     /\ RepoValid
     /\ ValidPair(last.args)
     /\ last.args[1].v \notin StoreNames(last.pre)
     /\ last.calls[1].error # GIT_ERROR)
    => /\ last.outcome = Return(Remote(last.args[1], last.args[2].v))
       /\ rb_git_remote_collection_aref(rb_repo, store, last.args[1], FALSE).outcome
             = Return(Remote(last.args[1], last.args[2].v))

\* create("b", "u2") succeeded on a store that already held another remote.
C8_Witness ==
    /\ last.op = "create"
    /\ last.args = << Str("b"), Str("u2") >>
    /\ Len(last.pre) = 1
    /\ last.outcome.kind = "return"
    /\ Len(store) = 2

\* C9: create with a name the store already holds raises GIT_EEXISTS, returns
\* no remote and leaves the store as it was: [] of the name still returns the
\* URL it had.
C9_DuplicateRejected ==
    (/\ last.op = "create"
     /\ RepoValid
     /\ ValidPair(last.args)
     /\ last.args[1].v \in StoreNames(last.pre)
     /\ last.calls[1].error # GIT_ERROR)
    => /\ last.outcome = Raise(GIT_EEXISTS)
       /\ store = last.pre
       /\ rb_git_remote_collection_aref(rb_repo, store, last.args[1], FALSE).outcome
             = Return(Remote(last.args[1],
                             last.pre[StoreIndex(last.pre, last.args[1].v)].url))

\* create("a", "u2") was refused while "a" is stored with "u1".
C9_Witness ==
    /\ last.op = "create"
    /\ last.args = << Str("a"), Str("u2") >>
    /\ Len(store) >= 1
    /\ \E k \in 1..Len(store) : store[k] = [name |-> "a", url |-> "u1"]
    /\ last.outcome = Raise(GIT_EEXISTS)

\* C10: create_anonymous leaves the store as it was, whatever its outcome; the
\* stored names are exactly those added by create and not deleted since; no
\* snapshot entry is a URL, and no remote given to a block lacks a name.
C10_AnonymousNotPersisted ==
    /\ last.op = "create_anonymous" => store = last.pre
    /\ StoreNames(store) = named
    /\ \A k \in 1..Len(ObsRemotes) : ObsRemotes[k] \notin UrlStrings
    /\ \A k \in 1..Len(ObsVisits) : VisitName(ObsVisits[k]).t = "str"

\* create_anonymous("u1") returned a remote without a name while the store
\* holds two named remotes.
C10_Witness ==
    /\ last.op = "create_anonymous"
    /\ last.outcome = Return(Remote(Qnil, "u1"))
    /\ Len(store) = 2
    /\ store = last.pre

\* The name delete's argument stands for, when it has one.
DeleteName(arg) == IF arg.t = "remote" THEN arg.name ELSE arg

\* Whether the store failed the only store call of the last call.
LastFault == last.calls # << >> /\ last.calls[1].error = GIT_ERROR

\* C11: delete with a remote that has no name, or with a value that is
\* neither a string nor a remote, raises TypeError, calls no git_remote_delete
\* and leaves the store as it was; delete with a named remote does exactly
\* what delete with that name does.
C11_DeleteArgument ==
    last.op = "delete" =>
        /\ ~DeleteArgIsName(last.args[1]) =>
              /\ last.outcome = Raise("TypeError")
              /\ last.calls = << >>
              /\ store = last.pre
        /\ (last.args[1].t = "remote" /\ last.args[1].name.t = "str") =>
              LET byName == rb_git_remote_collection_delete(
                                rb_repo, last.pre, last.args[1].name, LastFault)
              IN /\ last.outcome = byName.outcome
                 /\ last.calls = byName.calls
                 /\ store = byName.store

\* delete of an anonymous remote was refused while the store holds remotes.
C11_Witness ==
    /\ last.op = "delete"
    /\ last.args[1] = Remote(Qnil, "u1")
    /\ last.outcome = Raise("TypeError")
    /\ last.calls = << >>
    /\ Len(store) >= 1

\* C12: delete with a name on a valid repository makes one store call,
\* git_remote_delete of that name, and nothing before it; it returns nil
\* exactly when that call succeeds and raises the call's error otherwise.
C12_DeleteForwardsOutcome ==
    (last.op = "delete" /\ RepoValid /\ DeleteArgIsName(last.args[1])) =>
        /\ Len(last.calls) = 1
        /\ last.calls[1].fn = "git_remote_delete"
        /\ last.calls[1].arg = DeleteName(last.args[1]).v
        /\ last.outcome = (IF last.calls[1].error = GIT_OK THEN Return(Qnil)
                           ELSE Raise(last.calls[1].error))

\* delete("c") of a name the store does not hold raised the store's
\* GIT_ENOTFOUND.
C12_Witness ==
    /\ last.op = "delete"
    /\ last.args[1] = Str("c")
    /\ "c" \notin StoreNames(last.pre)
    /\ Len(last.pre) >= 1
    /\ last.outcome = Raise(GIT_ENOTFOUND)
    /\ store = last.pre

\* C13: when git_remote_list fails, the call raises the store's error, the
\* block is never entered and git_remote_load is never called; no loop runs
\* on a failed list.
C13_ListFailureAborts ==
    /\ Running => calls[1] = StoreCall("git_remote_list", "", GIT_OK)
    /\ (Finished /\ last.calls # << >> /\ last.calls[1].error # GIT_OK) =>
          /\ last.calls[1].fn = "git_remote_list"
          /\ Len(last.calls) = 1
          /\ last.visits = << >>
          /\ last.outcome = Raise(last.calls[1].error)

\* An each whose git_remote_list failed while the store holds two remotes.
C13_Witness ==
    /\ last.op = "each"
    /\ last.args[1]
    /\ last.calls = << StoreCall("git_remote_list", "", GIT_ERROR) >>
    /\ last.outcome = Raise(GIT_ERROR)
    /\ last.visits = << >>
    /\ Len(store) = 2

\* C14: each and each_name without a block call nothing of the store, enter
\* no block and return an enumerator of their own method; a call made by an
\* enumerator runs the method that enumerator was made for, with a block, and
\* takes its snapshot from the store as it is when the call is made.
C14_EnumeratorIsLazy ==
    /\ (last.op \in {"each", "each_name"} /\ ~last.args[1]) =>
          /\ last.outcome = Return(Enumerator(last.op))
          /\ last.calls = << >>
          /\ last.remotes = << >>
          /\ last.visits = << >>
          /\ last.op \in enumerators
    /\ (Running /\ driven) =>
          /\ MethodName(only_names) \in enumerators
          /\ Len(calls) >= 1
          /\ calls[1].fn = "git_remote_list"
          /\ ~mutated => remotes = git_remote_list(store, FALSE).strings
    /\ (Finished /\ last.args[2]) =>
          /\ last.op \in enumerators
          /\ (RepoValid /\ last.calls[1].error = GIT_OK /\ ~last.mutated) =>
                last.remotes = git_remote_list(store, FALSE).strings

\* An enumerator of each_name, the only one made, has been driven over a
\* store of two remotes; its run saw both.
C14_Witness ==
    /\ enumerators = {"each_name"}
    /\ last.op = "each_name"
    /\ last.args = << TRUE, TRUE >>
    /\ ~last.mutated
    /\ Len(last.remotes) = 2
    /\ Len(last.visits) = 2
    /\ last.outcome = Return(Qnil)

\* C15: on a valid repository create and create_anonymous with string
\* arguments and a URL that fails validation raise ArgumentError without
\* calling the store, and the store is as it was.
C15_UrlValidatedBeforeStore ==
    (/\ last.op \in {"create", "create_anonymous"}
     /\ RepoValid
     /\ \A k \in 1..Len(last.args) : last.args[k].t = "str"
     /\ ~rugged_validate_remote_url(last.args[Len(last.args)].v))
    => /\ last.outcome = Raise("ArgumentError")
       /\ last.calls = << >>
       /\ store = last.pre

\* create("b", "") was refused while the store holds one other remote.
C15_Witness ==
    /\ last.op = "create"
    /\ last.args = << Str("b"), Str("") >>
    /\ last.outcome = Raise("ArgumentError")
    /\ last.calls = << >>
    /\ Len(store) = 1
    /\ "b" \notin StoreNames(store)

\* C16: after a delete that returned nil, [] of the deleted name returns nil
\* and git_remote_list no longer holds the name; the name was in the store
\* before, as after a create.
C16_DeleteThenLookup ==
    (last.op = "delete" /\ last.outcome = Return(Qnil)) =>
        LET name == DeleteName(last.args[1])
        IN /\ name.v \in StoreNames(last.pre)
           /\ rb_git_remote_collection_aref(rb_repo, store, name, FALSE).outcome
                 = Return(Qnil)
           /\ \A k \in 1..Len(store) :
                 git_remote_list(store, FALSE).strings[k] # name.v

\* delete("a") returned nil on a store that held a and b; b is left.
C16_Witness ==
    /\ last.op = "delete"
    /\ last.args[1] = Str("a")
    /\ last.outcome = Return(Qnil)
    /\ Len(last.pre) = 2
    /\ StoreNames(store) = {"b"}

\* C17: each_name never calls git_remote_load: a snapshot name deleted before
\* its turn is still given to the block, and with a block that never fails
\* the call returns nil after the whole snapshot; each returns nil only when
\* every snapshot name was loaded, and raises when one was gone.
C17_NamesContinueOnMissing ==
    /\ ((Running \/ Finished) /\ ObsNamesMode) =>
          /\ Loads(ObsCalls) = 0
          /\ Running => error = GIT_OK
          /\ (~Running /\ RepoValid /\ last.calls[1].error = GIT_OK
              /\ \A k \in 1..Len(last.visits) : ~Failed(last.visits[k])) =>
                /\ last.outcome = Return(Qnil)
                /\ [k \in 1..Len(last.visits) |-> last.visits[k].val.v] = last.remotes
    /\ (Finished /\ last.op = "each" /\ last.outcome = Return(Qnil)) =>
          /\ Len(last.visits) = Len(last.remotes)
          /\ Loads(last.calls) = Len(last.remotes)
          /\ \A k \in 1..Len(last.calls) : last.calls[k].error = GIT_OK
    /\ (Finished /\ last.op = "each"
        /\ \E k \in 1..Len(last.calls) : last.calls[k].error = GIT_ENOTFOUND) =>
          last.outcome.kind = "raise"

\* An each_name over a, b returned nil after visiting both, although b is no
\* longer in the store.
C17_Witness ==
    /\ ~Running
    /\ last.op = "each_name"
    /\ last.args[1]
    /\ last.mutated
    /\ last.remotes = << "a", "b" >>
    /\ Len(last.visits) = 2
    /\ last.visits[2].val = Str("b")
    /\ "b" \notin StoreNames(store)
    /\ Len(last.calls) = 1
    /\ last.outcome = Return(Qnil)

\* The visits whose block has come back.
CompletedVisits(vs) == Cardinality({k \in 1..Len(vs) : vs[k].state # TAG_RUNNING})

\* C18: each loads one name at a time: every load but the last one succeeded
\* and its remote's visit came back without failure, every successful load's
\* remote is the visit of the same position, and the loads made never exceed
\* the completed visits by more than one.
C18_LoadsOneAtATime ==
    ((Running \/ Finished) /\ ~ObsNamesMode) =>
        /\ Loads(ObsCalls) <= CompletedVisits(ObsVisits) + 1
        /\ \A k \in 2..Len(ObsCalls) :
              /\ ObsCalls[k].fn = "git_remote_load"
              /\ ObsCalls[k].arg = ObsRemotes[k - 1]
              /\ k < Len(ObsCalls) =>
                    /\ ObsCalls[k].error = GIT_OK
                    /\ ObsVisits[k - 1].state = TAG_NONE
              /\ ObsCalls[k].error = GIT_OK =>
                    /\ Len(ObsVisits) >= k - 1
                    /\ ObsVisits[k - 1].val.name = Str(ObsCalls[k].arg)
        /\ Len(ObsVisits) <= Loads(ObsCalls)

\* A running each over two names is inside the block for the first: one
\* load made, none for the second name yet.
C18_Witness ==
    /\ pc = "yield"
    /\ ~only_names
    /\ Len(remotes) = 2
    /\ Loads(calls) = 1
    /\ Len(visits) = 1
    /\ visits[1].state = TAG_RUNNING

\* C19: under FairSpec every each / each_name call that has entered its loop
\* comes back to its caller, and it never gives the block more values than
\* the snapshot taken at its start holds, whatever the block adds to the
\* store meanwhile.
C19_IterationTerminates ==
    /\ [](/\ Len(ObsVisits) <= Len(ObsRemotes)
          /\ Running => i <= Len(remotes))
    /\ (Running ~> (~Running /\ Finished /\ last.outcome # NoOutcome))

\* An each_name over a one-name snapshot has returned after one visit during
\* which the store grew to two names.
C19_Witness ==
    /\ ~Running
    /\ Finished
    /\ last.mutated
    /\ Len(last.remotes) = 1
    /\ Len(last.visits) = 1
    /\ Len(last.pre) = 2
    /\ Len(last.calls) = 1
    /\ last.outcome = Return(Qnil)

\* C20: while the loop runs nothing has been released; when the loop is left,
\* by whatever way, the names have been released exactly once before the
\* outcome is formed; a call whose git_remote_list failed, or that never
\* reached it, released nothing.
C20_SnapshotReleasedOnce ==
    /\ pc \in {"loop", "yield"} => freed = 0
    /\ pc = "ret" => freed = 1
    /\ pc = "idle" => freed = 0
    /\ Finished =>
          last.freed = IF Len(last.calls) >= 1 /\ last.calls[1].error = GIT_OK
                       THEN 1 ELSE 0

\* An each whose second load failed has raised, with the names released once.
C20_Witness ==
    /\ ~Running
    /\ last.op = "each"
    /\ last.args[1]
    /\ Len(last.calls) = 3
    /\ last.calls[3].error = GIT_ERROR
    /\ last.outcome = Raise(GIT_ERROR)
    /\ last.freed = 1

====
